---------------------------- MODULE Spec2Model ----------------------------
(***************************************************************************)
(* Sensor drivers of micropython/drivers/sensor: TSL2591 (ambient light),  *)
(* AHT (temperature/humidity), BME280 (temperature/humidity/pressure) and  *)
(* DHT (one-wire temperature/humidity).                                    *)
(*                                                                         *)
(* One driver object is under test in a behaviour (drv).  The state is the *)
(* device behind the bus (regs), the driver object's fields (self) and a   *)
(* record of the last driver call: its name and arguments (op), the device *)
(* state it started from (pre; for a start_measure only the registers it   *)
(* reads), the bus transactions it issued (bus) and what it returned or    *)
(* raised (ret).  For the AHT and the BME280, hist tells whether           *)
(* start_measure was called since construction and how many readings were  *)
(* returned since the last start_measure (since construction before the    *)
(* first), counted up to MaxDelivered.                                     *)
(*                                                                         *)
(* Bus transfers succeed: a transport fault (a missing acknowledge, a      *)
(* pulse timing violation) is raised by the transport, not by a driver.    *)
(*                                                                         *)
(* Python values: None is the empty tuple <<>>, a value v is <<v>>, so a   *)
(* returned tuple is a sequence of such fields.  Physical values (floats   *)
(* rounded to two decimals) are carried as integers in hundredths.         *)
(***************************************************************************)
EXTENDS Integers, Sequences, FiniteSets, TLC

VARIABLES drv, regs, self, op, pre, bus, ret, hist

vars == <<drv, regs, self, op, pre, bus, ret, hist>>

None == <<>>

Some(v) == <<v>>

(***************************************************************************)
(* Bounds of the model.                                                    *)
(***************************************************************************)
\* start_measure's time argument ranges over 0, 100, ..., 100 * MaxTimeHundreds
\* (and two values that are no multiple of 100)
MaxTimeHundreds == 7

\* extra byte values (beyond the fixed corner values) a transfer may hold
ExtraBytes == 1

\* readings returned since the last start_measure are counted up to this
MaxDelivered == 2

NoHist == [started |-> FALSE, delivered |-> 0]

\* hist after a get_measure_results that returned a reading (got) or none
Delivered(h, got) ==
    IF got /\ h.delivered < MaxDelivered
    THEN [h EXCEPT !.delivered = h.delivered + 1]
    ELSE h

\* the fixed corner values and the extra byte values 37, 74, ...
Bytes(corner) == corner \cup {(37 * k) % 256 : k \in 1..ExtraBytes}

\* n / d rounded to the nearest integer, ties to the even one (n >= 0, d > 0)
RoundHalfEven(n, d) ==
    LET q == n \div d
        r == n % d
    IN  IF 2 * r < d THEN q
        ELSE IF 2 * r > d THEN q + 1
        ELSE IF q % 2 = 0 THEN q
        ELSE q + 1

(***************************************************************************)
(* Bit operations on naturals, as Python's &, | and ^ on non-negative ints.*)
(***************************************************************************)
RECURSIVE BitAnd(_, _)
BitAnd(a, b) ==
    IF a = 0 \/ b = 0 THEN 0
    ELSE (a % 2) * (b % 2) + 2 * BitAnd(a \div 2, b \div 2)

RECURSIVE BitOrNat(_, _)
BitOrNat(a, b) ==
    IF a = 0 THEN b
    ELSE IF b = 0 THEN a
    ELSE (IF a % 2 = 1 \/ b % 2 = 1 THEN 1 ELSE 0) + 2 * BitOrNat(a \div 2, b \div 2)

\* Python's | ; the only negative operand the drivers produce is -1 (all ones).
BitOr(a, b) == IF a = -1 \/ b = -1 THEN -1 ELSE BitOrNat(a, b)

RECURSIVE BitXor(_, _)
BitXor(a, b) ==
    IF a = 0 THEN b
    ELSE IF b = 0 THEN a
    ELSE ((a + b) % 2) + 2 * BitXor(a \div 2, b \div 2)

(***************************************************************************)
(* Python integers of any size.  The BME280 compensation chain needs more  *)
(* than 32 bits, so its integers are sign-and-magnitude numbers: mag is    *)
(* the magnitude in limbs of 15 bits, least significant first, without     *)
(* leading zero limbs (zero is <<>>), neg its sign.  The M operators work  *)
(* on magnitudes, the Z operators on signed integers with Python's         *)
(* semantics (>> and // round towards minus infinity).                     *)
(***************************************************************************)
Base == 2^15

RECURSIVE MTrim(_)
MTrim(a) ==
    IF a = <<>> THEN a
    ELSE IF a[Len(a)] = 0 THEN MTrim(SubSeq(a, 1, Len(a) - 1))
    ELSE a

RECURSIVE MOfNat(_)
MOfNat(n) == IF n = 0 THEN <<>> ELSE <<n % Base>> \o MOfNat(n \div Base)

RECURSIVE MToNat(_)
MToNat(a) == IF a = <<>> THEN 0 ELSE Head(a) + Base * MToNat(Tail(a))

MRest(a) == IF a = <<>> THEN a ELSE Tail(a)

MLow(a) == IF a = <<>> THEN 0 ELSE Head(a)

RECURSIVE MAddC(_, _, _)
MAddC(a, b, c) ==
    IF a = <<>> /\ b = <<>> THEN (IF c = 0 THEN <<>> ELSE <<c>>)
    ELSE LET s == MLow(a) + MLow(b) + c
         IN  <<s % Base>> \o MAddC(MRest(a), MRest(b), s \div Base)

MAdd(a, b) == MAddC(a, b, 0)

\* a - b for a >= b
RECURSIVE MSubB(_, _, _)
MSubB(a, b, borrow) ==
    IF a = <<>> THEN <<>>
    ELSE LET d == Head(a) - MLow(b) - borrow
         IN  <<IF d < 0 THEN d + Base ELSE d>> \o MSubB(Tail(a), MRest(b), IF d < 0 THEN 1 ELSE 0)

MSub(a, b) == MTrim(MSubB(a, b, 0))

RECURSIVE MCmpAt(_, _, _)
MCmpAt(a, b, i) ==
    IF i = 0 THEN 0
    ELSE IF a[i] < b[i] THEN -1
    ELSE IF a[i] > b[i] THEN 1
    ELSE MCmpAt(a, b, i - 1)

\* -1, 0, 1 as a < b, a = b, a > b
MCmp(a, b) ==
    IF Len(a) < Len(b) THEN -1
    ELSE IF Len(a) > Len(b) THEN 1
    ELSE MCmpAt(a, b, Len(a))

\* a * d + c for one limb d
RECURSIVE MMulSmallC(_, _, _)
MMulSmallC(a, d, c) ==
    IF a = <<>> THEN (IF c = 0 THEN <<>> ELSE <<c>>)
    ELSE LET p == Head(a) * d + c
         IN  <<p % Base>> \o MMulSmallC(Tail(a), d, p \div Base)

MMulSmall(a, d) == MTrim(MMulSmallC(a, d, 0))

MShiftLimb(a) == IF a = <<>> THEN a ELSE <<0>> \o a

RECURSIVE MMul(_, _)
MMul(a, b) ==
    IF a = <<>> \/ b = <<>> THEN <<>>
    ELSE MAdd(MMulSmall(a, Head(b)), MShiftLimb(MMul(a, Tail(b))))

RECURSIVE MShiftLimbs(_, _)
MShiftLimbs(a, n) == IF n = 0 THEN a ELSE MShiftLimbs(MShiftLimb(a), n - 1)

\* a * 2^k
MShl(a, k) == MShiftLimbs(MMulSmall(a, 2^(k % 15)), k \div 15)

\* quotient and remainder of a by one limb d > 0
RECURSIVE MDivSmallQR(_, _)
MDivSmallQR(a, d) ==
    IF a = <<>> THEN [q |-> <<>>, r |-> 0]
    ELSE LET hi == MDivSmallQR(Tail(a), d)
             cur == hi.r * Base + Head(a)
         IN  [q |-> <<cur \div d>> \o hi.q, r |-> cur % d]

\* floor(a / 2^k), and whether a nonzero bit was shifted out
MShrQR(a, k) ==
    LET n == k \div 15
        low == SubSeq(a, 1, IF n < Len(a) THEN n ELSE Len(a))
        high == SubSeq(a, n + 1, Len(a))
        qr == MDivSmallQR(high, 2^(k % 15))
    IN  [q |-> MTrim(qr.q), inexact |-> qr.r # 0 \/ \E i \in DOMAIN low : low[i] # 0]

\* the largest digit d < 2^(bit+1) + acc, from acc upwards, with b * d <= cur
RECURSIVE MDigit(_, _, _, _)
MDigit(cur, b, bit, acc) ==
    IF bit < 0 THEN acc
    ELSE LET t == acc + 2^bit
         IN  IF MCmp(MMulSmall(b, t), cur) <= 0
             THEN MDigit(cur, b, bit - 1, t)
             ELSE MDigit(cur, b, bit - 1, acc)

\* long division, one limb of a at a time from the top: quotient and
\* remainder of a by b # 0
RECURSIVE MDivMod(_, _)
MDivMod(a, b) ==
    IF a = <<>> THEN [q |-> <<>>, r |-> <<>>]
    ELSE LET hi == MDivMod(Tail(a), b)
             cur == MTrim(<<Head(a)>> \o hi.r)
             d == MDigit(cur, b, 14, 0)
         IN  [q |-> MTrim(<<d>> \o hi.q), r |-> MSub(cur, MMulSmall(b, d))]

ZMk(neg, mag) == [neg |-> neg /\ mag # <<>>, mag |-> mag]

\* the signed integer of a (32-bit) model integer
Z(n) == IF n < 0 THEN ZMk(TRUE, MOfNat(-n)) ELSE ZMk(FALSE, MOfNat(n))

\* the model integer of a signed integer that fits
ZToInt(x) == IF x.neg THEN -MToNat(x.mag) ELSE MToNat(x.mag)

ZNeg(x) == ZMk(~x.neg, x.mag)

ZAdd(x, y) ==
    IF x.neg = y.neg THEN ZMk(x.neg, MAdd(x.mag, y.mag))
    ELSE IF MCmp(x.mag, y.mag) >= 0 THEN ZMk(x.neg, MSub(x.mag, y.mag))
    ELSE ZMk(y.neg, MSub(y.mag, x.mag))

ZSub(x, y) == ZAdd(x, ZNeg(y))

ZMul(x, y) == ZMk(x.neg # y.neg, MMul(x.mag, y.mag))

\* x << k
ZShl(x, k) == ZMk(x.neg, MShl(x.mag, k))

\* x >> k (floor)
ZShr(x, k) ==
    LET s == MShrQR(x.mag, k)
    IN  IF x.neg /\ s.inexact THEN ZMk(TRUE, MAddC(s.q, <<>>, 1))
        ELSE ZMk(x.neg, s.q)

\* x // y for y # 0 (floor)
ZFloorDiv(x, y) ==
    LET d == MDivMod(x.mag, y.mag)
    IN  IF x.neg = y.neg THEN ZMk(FALSE, d.q)
        ELSE IF d.r # <<>> THEN ZMk(TRUE, MAddC(d.q, <<>>, 1))
        ELSE ZMk(TRUE, d.q)

ZIsZero(x) == x.mag = <<>>

\* x < y
ZLess(x, y) ==
    IF x.neg # y.neg THEN x.neg
    ELSE IF x.neg THEN MCmp(x.mag, y.mag) > 0
    ELSE MCmp(x.mag, y.mag) < 0

\* round(x / 2^k) to the nearest integer, ties to the even one
ZShrRound(x, k) ==
    LET f == ZShr(x, k)
        twice == ZSub(ZShl(ZSub(x, ZShl(f, k)), 1), ZShl(Z(1), k))
    IN  IF ZLess(twice, Z(0)) THEN f
        ELSE IF ZLess(Z(0), twice) THEN ZAdd(f, Z(1))
        ELSE IF MLow(f.mag) % 2 = 0 THEN f
        ELSE ZAdd(f, Z(1))

\* a bus transaction as logged: a register read, a register write, a raw
\* write, a raw read, or a one-wire pulse-train transfer
BusRead(cmd, n) == [k |-> "readfrom_mem", cmd |-> cmd, n |-> n]

BusWrite(cmd, byte) == [k |-> "writeto_mem", cmd |-> cmd, data |-> byte]

Returned(t) == [exc |-> "none", val |-> t]

Raised(e) == [exc |-> e, val |-> <<>>]

\* A step of the device between two driver calls: no call is on record after it.
DeviceStep ==
    /\ op' = [name |-> "device"]
    /\ pre' = regs'
    /\ bus' = <<>>
    /\ ret' = Returned(None)
    /\ UNCHANGED <<drv, self, hist>>

(***************************************************************************)
(* TSL2591                                                                 *)
(***************************************************************************)
ENABLE == 0

CONFIG == 1

STATUS == 19

C0DATA == 20

C1DATA == 22

\* channel values the device may hold after an integration cycle
\* (full spectrum, infrared)
TSLSamples == {<<0, 0>>, <<65535, 1>>} \cup {<<4660 + k, 22136>> : k \in 1..ExtraBytes}

\* command byte of a register access: (0xA0 | addr) & 0xFF
TSLCmd(addr) == BitAnd(BitOr(160, addr), 255)

\* the device decodes the register address from the command's low five bits
TSLRegOf(cmd) == cmd % 32

\* TSL2591._read: the register's value (data registers: two bytes, little endian)
TSLRead(r, addr) == r[TSLRegOf(TSLCmd(addr))]

\* The device's reaction to a one-byte register write.  Asserting AEN
\* (bit 1 of ENABLE, 0 -> 1) starts a new integration cycle and clears AVALID.
TSLDeviceWrite(r, cmd, byte) ==
    LET a == TSLRegOf(cmd) IN
    IF a = ENABLE /\ BitAnd(byte, 2) # 0 /\ BitAnd(r[ENABLE], 2) = 0
    THEN [r EXCEPT ![ENABLE] = byte, ![STATUS] = BitAnd(r[STATUS], 254)]
    ELSE [r EXCEPT ![a] = byte]

\* bytes([int(data)]): a value outside 0..255 raises ValueError on a build with
\* full checks and is truncated to its low byte on a build without them.
BytesOf(data, fullChecks) ==
    IF data \in 0..255 THEN [ok |-> TRUE, byte |-> data]
    ELSE IF fullChecks THEN [ok |-> FALSE, byte |-> 0]
    ELSE [ok |-> TRUE, byte |-> data % 256]

\* TSL2591.__init__: power on
InitTSL ==
    /\ drv = "TSL2591"
    /\ \E fc \in BOOLEAN : self = [i2c_addr |-> 41, fullChecks |-> fc]
    /\ regs = TSLDeviceWrite([a \in {ENABLE, CONFIG, STATUS, C0DATA, C1DATA} |-> 0],
                             TSLCmd(ENABLE), 1)
    /\ op = [name |-> "__init__"]
    /\ pre = regs
    /\ bus = <<BusWrite(TSLCmd(ENABLE), 1)>>
    /\ ret = Returned(None)
    /\ hist = NoHist

\* the integration-time code without the clamp above 600
TSLAtimeUnclamped(time) == (time \div 100) - 1

\* integration-time code of start_measure
TSLAtime(time) == IF time > 600 THEN 5 ELSE (time \div 100) - 1

\* gain field of start_measure: (gain & 0x3) << 4
TSLAgain(gain) == BitAnd(gain, 3) * 16

\* the value start_measure writes back to ENABLE
TSLEnableOn(enable) == BitOr(enable, 2)

\* the write-back clearing the power-on bit instead of the ALS-enable bit
TSLEnableOffPowerBit(enable) == BitAnd(enable, 254)

\* the value get_measure_results writes back to ENABLE
TSLEnableOff(enable) == BitAnd(enable, 253)

\* the ENABLE test reading the power-on bit instead of the ALS-enable bit
TSLAlsEnabledPowerBit(enable) == BitAnd(enable, 1) # 0

\* the test get_measure_results makes of ENABLE: self._read(self.ENABLE) & 0x02
TSLAlsEnabled(enable) == BitAnd(enable, 2) # 0

\* the STATUS test with its sense inverted
TSLStatusValidInverted(status) == BitAnd(status, 1) = 0

\* the test get_measure_results makes of STATUS: self._read(self.STATUS) & 0x01
TSLStatusValid(status) == BitAnd(status, 1) # 0

\* TSL2591.start_measure(time, gain)
TSLStartMeasure(time, gain) ==
    /\ drv = "TSL2591"
    /\ LET cfg == BytesOf(BitOr(TSLAtime(time), TSLAgain(gain)), self.fullChecks)
           r1 == TSLDeviceWrite(regs, TSLCmd(CONFIG), cfg.byte)
           enable == TSLRead(r1, 0)
           on == BytesOf(TSLEnableOn(enable), self.fullChecks)
       IN  /\ op' = [name |-> "start_measure", time |-> time, gain |-> gain]
           /\ pre' = [a \in {ENABLE} |-> regs[a]]
           /\ IF ~cfg.ok
              THEN /\ regs' = regs
                   /\ bus' = <<>>
                   /\ ret' = Raised("ValueError")
              ELSE /\ regs' = TSLDeviceWrite(r1, TSLCmd(ENABLE), on.byte)
                   /\ bus' = <<BusWrite(TSLCmd(CONFIG), cfg.byte),
                               BusRead(TSLCmd(0), 1),
                               BusWrite(TSLCmd(ENABLE), on.byte)>>
                   /\ ret' = Returned(None)
    /\ UNCHANGED <<drv, self, hist>>

\* TSL2591.get_measure_results()
TSLGetMeasureResults ==
    /\ drv = "TSL2591"
    /\ op' = [name |-> "get_measure_results"]
    /\ pre' = regs
    /\ IF TSLAlsEnabled(TSLRead(regs, ENABLE))
       THEN IF TSLStatusValid(TSLRead(regs, STATUS))
            THEN LET full_raw == TSLRead(regs, C0DATA)
                     ir_raw == TSLRead(regs, C1DATA)
                     enable == TSLRead(regs, ENABLE)
                     off == BytesOf(TSLEnableOff(enable), self.fullChecks)
                 IN  /\ regs' = TSLDeviceWrite(regs, TSLCmd(ENABLE), off.byte)
                     /\ bus' = <<BusRead(TSLCmd(ENABLE), 1), BusRead(TSLCmd(STATUS), 1),
                                 BusRead(TSLCmd(C0DATA), 2), BusRead(TSLCmd(C1DATA), 2),
                                 BusRead(TSLCmd(ENABLE), 1),
                                 BusWrite(TSLCmd(ENABLE), off.byte)>>
                     /\ ret' = Returned(<<Some(full_raw), Some(ir_raw)>>)
            ELSE /\ regs' = regs
                 /\ bus' = <<BusRead(TSLCmd(ENABLE), 1), BusRead(TSLCmd(STATUS), 1)>>
                 /\ ret' = Returned(<<None, None>>)
       ELSE /\ regs' = regs
            /\ bus' = <<BusRead(TSLCmd(ENABLE), 1)>>
            /\ ret' = Returned(<<Some(-1), Some(-1)>>)
    /\ UNCHANGED <<drv, self, hist>>

\* The device finishes an integration cycle: with the oscillator on and ALS
\* enabled it latches new channel data and sets AVALID (STATUS bit 0).
TSLDeviceCycle ==
    /\ drv = "TSL2591"
    /\ BitAnd(regs[ENABLE], 3) = 3
    /\ \E c \in TSLSamples :
          regs' = [regs EXCEPT ![STATUS] = BitOr(regs[STATUS], 1),
                               ![C0DATA] = c[1], ![C1DATA] = c[2]]
    /\ DeviceStep

TSLTimes == {100 * k : k \in 0..MaxTimeHundreds} \cup {99, 250}

NextTSL ==
    \/ \E time \in TSLTimes, gain \in 0..3 : TSLStartMeasure(time, gain)
    \/ TSLGetMeasureResults
    \/ TSLDeviceCycle

SpecTSL == InitTSL /\ [][NextTSL]_vars


(***************************************************************************)
(* AHT                                                                     *)
(***************************************************************************)
RawWrite(bytes) == [k |-> "writeto", data |-> bytes]

RawRead(n) == [k |-> "readfrom", n |-> n]

\* b"\x71": the status command
AHTStatusCmd == <<113>>

\* b"\x70\xac\x33\x00": the trigger-measurement command
AHTTriggerCmd == <<112, 172, 51, 0>>

\* an integer's bits, least significant first, w of them
RECURSIVE BitsOf(_, _)
BitsOf(n, w) == IF w = 0 THEN <<>> ELSE <<n % 2>> \o BitsOf(n \div 2, w - 1)

\* bits ^ n for n < 256 (bits holds at least 8 bits)
BitsXorByte(bits, n) ==
    LET x(i) == (bits[i] + (n \div 2^(i - 1))) % 2
    IN  <<x(1), x(2), x(3), x(4), x(5), x(6), x(7), x(8)>> \o SubSeq(bits, 9, Len(bits))

\* bits << 1
BitsShl1(bits) == <<0>> \o bits

\* bits & 0xFF
BitsLowByte(bits) ==
    bits[1] + 2 * bits[2] + 4 * bits[3] + 8 * bits[4]
    + 16 * bits[5] + 32 * bits[6] + 64 * bits[7] + 128 * bits[8]

\* a round of the inner loop with the polynomial 0x07
AHTCrcShiftPoly07(crc) ==
    IF crc[8] = 1 THEN BitsXorByte(BitsShl1(crc), 7) ELSE BitsShl1(crc)

\* one round of _check_crc's inner loop; crc is an unbounded Python integer,
\* held as its bits: nothing is masked, so it grows by a bit each round
AHTCrcShift(crc) ==
    IF crc[8] = 1 THEN BitsXorByte(BitsShl1(crc), 49) ELSE BitsShl1(crc)

\* the inner loop: for _ in range(8)
AHTCrcShifts(crc) ==
    AHTCrcShift(AHTCrcShift(AHTCrcShift(AHTCrcShift(
        AHTCrcShift(AHTCrcShift(AHTCrcShift(AHTCrcShift(crc))))))))

\* the outer loop: for byte in data (the test of Len only fixes the order of
\* evaluation: a byte's rounds are computed before the next byte is taken)
RECURSIVE AHTCrcBytes(_, _)
AHTCrcBytes(crc, data) ==
    IF data = <<>> THEN crc
    ELSE LET next == AHTCrcShifts(BitsXorByte(crc, Head(data)))
         IN  IF Len(next) >= 8 THEN AHTCrcBytes(next, Tail(data)) ELSE next

\* AHT._check_crc(data, checksum)
AHTCheckCrc(data, checksum) ==
    checksum = BitsLowByte(AHTCrcBytes(BitsOf(255, 8), data))

\* the status test reading bit 6 instead of the busy bit 7
AHTStatusBusyBit6(status) == BitAnd(status, 64) # 0

\* the driver's test of the status byte: status[0] & 0x80
AHTStatusBusy(status) == BitAnd(status, 128) # 0

\* h_raw of a response: int.from_bytes(response[1:4], "big") >> 4
AHTHRaw(response) ==
    (response[2] * 65536 + response[3] * 256 + response[4]) \div 16

\* t_raw of a response: int.from_bytes(response[3:6], "big") & 0xFFFFF
AHTTRaw(response) ==
    BitAnd(response[4] * 65536 + response[5] * 256 + response[6], 1048575)

\* round((100 * h_raw) / 0x100000, 2), in hundredths
AHTHVal(h_raw) == RoundHalfEven(625 * h_raw, 65536)

\* round((200 * t_raw) / 0x100000 - 50, 2), in hundredths
AHTTVal(t_raw) == RoundHalfEven(625 * t_raw, 32768) - 5000

\* The sensor's own checksum of a frame, as its datasheet defines it: CRC-8,
\* polynomial 0x31, initial value 0xFF, MSB first, in an 8-bit register.
Crc8Shift(crc) == IF crc >= 128 THEN BitXor((crc * 2) % 256, 49) ELSE (crc * 2) % 256

Crc8Shifts(crc) ==
    Crc8Shift(Crc8Shift(Crc8Shift(Crc8Shift(Crc8Shift(Crc8Shift(Crc8Shift(Crc8Shift(crc))))))))

RECURSIVE Crc8(_, _)
Crc8(crc, data) ==
    IF data = <<>> THEN crc
    ELSE LET next == Crc8Shifts(BitXor(crc, Head(data)))
         IN  IF next >= 0 THEN Crc8(next, Tail(data)) ELSE next

\* the seven bytes the device answers a read with
AHTResponse(r) == <<r.status>> \o r.data \o <<r.crc>>

\* the device's reaction to a raw write: the trigger command starts a
\* conversion (status bit 7 set), the status command changes nothing
AHTDeviceWrite(r, bytes) ==
    IF bytes = AHTTriggerCmd THEN [r EXCEPT !.status = BitOr(r.status, 128)] ELSE r

\* AHT.__init__: status command, one status byte read (and not acted on)
InitAHT ==
    /\ drv = "AHT"
    /\ self = [i2c_addr |-> 56]
    /\ \E st \in {0, 24} :
          regs = [status |-> st, data |-> <<0, 0, 0, 0, 0>>,
                  crc |-> Crc8(255, <<st, 0, 0, 0, 0, 0>>)]
    /\ op = [name |-> "__init__"]
    /\ pre = regs
    /\ bus = <<RawWrite(AHTStatusCmd), RawRead(1)>>
    /\ ret = Returned(None)
    /\ hist = NoHist

\* AHT.start_measure()
AHTStartMeasure ==
    /\ drv = "AHT"
    /\ op' = [name |-> "start_measure"]
    /\ pre' = regs
    /\ regs' = AHTDeviceWrite(regs, AHTTriggerCmd)
    /\ bus' = <<RawWrite(AHTTriggerCmd)>>
    /\ ret' = Returned(None)
    /\ hist' = [started |-> TRUE, delivered |-> 0]
    /\ UNCHANGED <<drv, self>>

\* AHT.get_measure_results()
AHTGetMeasureResults ==
    /\ drv = "AHT"
    /\ op' = [name |-> "get_measure_results"]
    /\ pre' = regs
    /\ LET r1 == AHTDeviceWrite(regs, AHTStatusCmd)
           status == <<r1.status>>
       IN  IF AHTStatusBusy(status[1])
           THEN /\ regs' = r1
                /\ bus' = <<RawWrite(AHTStatusCmd), RawRead(1)>>
                /\ ret' = Returned(<<None, None, None, None, None>>)
                /\ hist' = Delivered(hist, FALSE)
           ELSE LET r2 == AHTDeviceWrite(r1, AHTStatusCmd)
                    response == AHTResponse(r2)
                    h_raw == AHTHRaw(response)
                    t_raw == AHTTRaw(response)
                    isvalid == AHTCheckCrc(SubSeq(response, 1, 6), response[7])
                IN  /\ regs' = r2
                    /\ bus' = <<RawWrite(AHTStatusCmd), RawRead(1),
                                RawWrite(AHTStatusCmd), RawRead(7)>>
                    /\ ret' = Returned(<<Some(t_raw), Some(AHTTVal(t_raw)),
                                         Some(h_raw), Some(AHTHVal(h_raw)), Some(isvalid)>>)
                    /\ hist' = Delivered(hist, TRUE)
    /\ UNCHANGED <<drv, self>>

\* frames a conversion may leave in the device (bytes 1..5 of the response)
AHTFrames ==
    {<<b1, b2, b3, b4, b5>> : b1 \in {0, 128}, b2 \in Bytes({0}), b3 \in {15, 240},
                              b4 \in {255}, b5 \in {1, 254}}

\* The device finishes a conversion: status bit 7 is cleared and a new frame
\* is ready, with the sensor's checksum or, corrupted on the way, another byte.
AHTDeviceDone ==
    /\ drv = "AHT"
    /\ BitAnd(regs.status, 128) # 0
    /\ \E f \in AHTFrames :
          LET st == BitAnd(regs.status, 127)
              good == Crc8(255, <<st>> \o f)
          IN  \E c \in {good, (good + 1) % 256, 255 - good} :
                 regs' = [status |-> st, data |-> f, crc |-> c]
    /\ DeviceStep

NextAHT ==
    \/ AHTStartMeasure
    \/ AHTGetMeasureResults
    \/ AHTDeviceDone

SpecAHT == InitAHT /\ [][NextAHT]_vars

(***************************************************************************)
(* DHT                                                                     *)
(***************************************************************************)
DHT11 == 17

DHT22 == 34

\* buf[i:i+2] read with int.from_bytes(..., "little"); buf is indexed from 1 here
DHTField(buf, i) == buf[i] + 256 * buf[i + 1]

\* the checksum without the reduction to a byte
DHTChecksumUnmasked(buf) == buf[1] + buf[2] + buf[3] + buf[4]

\* the checksum get_measure_results computes
DHTChecksum(buf) == BitAnd(buf[1] + buf[2] + buf[3] + buf[4], 255)

\* the sign test reading bit 15 only: t_raw & 0x8000
DHTSignBit15(t_raw) == BitAnd(t_raw, 32768) # 0

\* the sign test of the DHT22 branch: t_raw & 8000
DHTSign(t_raw) == BitAnd(t_raw, 8000) # 0

\* t_raw as returned
DHTTRaw(dht, buf) ==
    LET t_raw == DHTField(buf, 3)
    IN  IF dht = DHT22 /\ DHTSign(t_raw) THEN -BitAnd(t_raw, 32767) ELSE t_raw

\* h_raw as returned
DHTHRaw(dht, buf) == DHTField(buf, 1)

\* t_val, in hundredths; None for a variant that is neither DHT11 nor DHT22
DHTTVal(dht, buf) ==
    LET t_raw == DHTField(buf, 3)
    IN  IF dht = DHT11 THEN Some(100 * BitAnd(t_raw, 32767))
        ELSE IF dht = DHT22
        THEN IF DHTSign(t_raw) THEN Some(-(10 * BitAnd(t_raw, 32767)))
             ELSE Some(10 * BitAnd(t_raw, 32767))
        ELSE None

\* h_val, in hundredths; None for a variant that is neither DHT11 nor DHT22
DHTHVal(dht, buf) ==
    LET h_raw == DHTField(buf, 1)
    IN  IF dht = DHT11 THEN Some(100 * h_raw)
        ELSE IF dht = DHT22 THEN Some(10 * h_raw)
        ELSE None

\* DHT.__init__(pin, dht): any variant code is accepted
InitDHT ==
    /\ drv = "DHT"
    /\ \E dht \in {DHT11, DHT22, 0} : self = [dht |-> dht, buf |-> <<0, 0, 0, 0, 0>>]
    /\ regs = <<>>
    /\ op = [name |-> "__init__"]
    /\ pre = regs
    /\ bus = <<>>
    /\ ret = Returned(None)
    /\ hist = NoHist

\* the five bytes a pulse-train transfer may deliver
DHTTransfers ==
    {<<b0, b1, b2, b3, b4>> : b0 \in {0, 2}, b1 \in {140, 255}, b2 \in Bytes({0, 64}),
                              b3 \in {0, 1, 128, 224}, b4 \in 0..255} 

\* DHT.get_measure_results(): round(None, 2) raises TypeError
DHTGetMeasureResults(transfer) ==
    /\ drv = "DHT"
    /\ op' = [name |-> "get_measure_results"]
    /\ pre' = regs
    /\ bus' = <<[k |-> "dht_readinto", n |-> 5]>>
    /\ self' = [self EXCEPT !.buf = transfer]
    /\ LET buf == transfer
           t_val == DHTTVal(self.dht, buf)
           h_val == DHTHVal(self.dht, buf)
       IN  IF t_val = None \/ h_val = None
           THEN ret' = Raised("TypeError")
           ELSE ret' = Returned(<<Some(DHTTRaw(self.dht, buf)), t_val,
                                  Some(DHTHRaw(self.dht, buf)), h_val,
                                  Some(DHTChecksum(buf) = buf[5])>>)
    /\ UNCHANGED <<drv, regs, hist>>

\* a transfer whose checksum byte is right, or off by one, or complemented
DHTChecked(t) ==
    LET sum == (t[1] + t[2] + t[3] + t[4]) % 256
    IN  t[5] \in {sum, (sum + 1) % 256, 255 - sum}

NextDHT ==
    \E transfer \in {t \in DHTTransfers : DHTChecked(t)} : DHTGetMeasureResults(transfer)

SpecDHT == InitDHT /\ [][NextDHT]_vars

(***************************************************************************)
(* BME280                                                                  *)
(***************************************************************************)
\* the device's registers the driver touches, one byte each:
\* calibration 0x88..0x9F, 0xA1, 0xE1..0xE7; ctrl_hum 0xF2, status 0xF3,
\* ctrl_meas 0xF4, config 0xF5; pressure, temperature and humidity data
\* 0xF7..0xFE
BMEAddrs == (136..159) \cup {161} \cup (225..231) \cup (242..245) \cup (247..254)

RECURSIVE FromBytesBig(_)
FromBytesBig(bs) ==
    IF bs = <<>> THEN 0 ELSE FromBytesBig(SubSeq(bs, 1, Len(bs) - 1)) * 256 + bs[Len(bs)]

RECURSIVE FromBytesLittle(_)
FromBytesLittle(bs) == IF bs = <<>> THEN 0 ELSE Head(bs) + 256 * FromBytesLittle(Tail(bs))

RECURSIVE RegBytes(_, _, _)
RegBytes(r, addr, len) ==
    IF len = 0 THEN <<>> ELSE <<r[addr]>> \o RegBytes(r, addr + 1, len - 1)

\* BME280._read(addr, len, byteorder)
BMERead(r, addr, len, byteorder) ==
    IF byteorder = "big" THEN FromBytesBig(RegBytes(r, addr, len))
    ELSE FromBytesLittle(RegBytes(r, addr, len))

\* The device's reaction to a one-byte register write.  A write of ctrl_meas
\* (0xF4) with mode bits 01 or 10 (forced mode) starts one conversion: the
\* status register's measuring bit (bit 3) is set until the device is done.
BMEDeviceWrite(r, addr, byte) ==
    LET w == [r EXCEPT ![addr] = byte]
    IN  IF addr = 244 /\ BitAnd(byte, 3) \in {1, 2}
        THEN [w EXCEPT ![243] = BitOr(r[243], 8)]
        ELSE w

\* BME280._get_compensation_params
BMEGetCompensationParams(r) ==
    LET l == "little"
        E5 == BMERead(r, 229, 1, "big")
    IN  [dig_T1 |-> BMERead(r, 136, 2, l), dig_T2 |-> BMERead(r, 138, 2, l),
         dig_T3 |-> BMERead(r, 140, 2, l), dig_P1 |-> BMERead(r, 142, 2, l),
         dig_P2 |-> BMERead(r, 144, 2, l), dig_P3 |-> BMERead(r, 146, 2, l),
         dig_P4 |-> BMERead(r, 148, 2, l), dig_P5 |-> BMERead(r, 150, 2, l),
         dig_P6 |-> BMERead(r, 152, 2, l), dig_P7 |-> BMERead(r, 154, 2, l),
         dig_P8 |-> BMERead(r, 156, 2, l), dig_P9 |-> BMERead(r, 158, 2, l),
         dig_H1 |-> BMERead(r, 161, 1, "big"), dig_H2 |-> BMERead(r, 225, 2, l),
         dig_H3 |-> BMERead(r, 227, 1, "big"),
         dig_H4 |-> BitOr(BMERead(r, 228, 1, "big") * 16, BitAnd(E5, 15)),
         dig_H5 |-> BitOr((E5 \div 16) * 256, BMERead(r, 230, 1, "big")),
         dig_H6 |-> BMERead(r, 231, 1, "big")]

\* t_fine of the temperature stage
BMETFine(d, t_raw) ==
    LET var1 == ZShr(ZMul(Z((t_raw \div 8) - d.dig_T1 * 2), Z(d.dig_T2)), 11)
        a == Z((t_raw \div 16) - d.dig_T1)
        var2 == ZShr(ZMul(ZShr(ZMul(a, a), 12), Z(d.dig_T3)), 14)
    IN  ZAdd(var1, var2)

\* t_int = (t_fine * 5 + 128) >> 8; round(t_int / 100, 2) is t_int hundredths
BMETInt(t_fine) == ZShr(ZAdd(ZMul(t_fine, Z(5)), Z(128)), 8)

\* the humidity intermediate: var1 as the range test of the humidity stage sees it
BMEHumidityIntermediate(d, t_fine, h_raw) ==
    LET var1 == ZSub(t_fine, Z(76800))
        x == ZShr(ZAdd(ZSub(ZSub(ZShl(Z(h_raw), 14), ZShl(Z(d.dig_H4), 20)),
                            ZMul(Z(d.dig_H5), var1)),
                       Z(16384)), 15)
        y == ZShr(ZAdd(ZMul(ZAdd(ZShr(ZMul(ZShr(ZMul(var1, Z(d.dig_H6)), 10),
                                           ZAdd(ZShr(ZMul(var1, Z(d.dig_H3)), 11),
                                                Z(32768))),
                                      10),
                                 Z(2097152)),
                            Z(d.dig_H2)),
                       Z(8192)), 14)
        v == ZMul(x, y)
        s == ZShr(v, 15)
    IN  ZSub(v, ZShr(ZMul(ZShr(ZMul(s, s), 7), Z(d.dig_H1)), 4))

\* the range test with the upper limit excluded: var1 < 0 or var1 >= 419430400
BMEHumidityInRangeExclusive(var1) == ~(ZLess(var1, Z(0)) \/ ~ZLess(var1, Z(419430400)))

\* the range test of the humidity stage: not (var1 < 0 or var1 > 419430400)
BMEHumidityInRange(var1) == ~(ZLess(var1, Z(0)) \/ ZLess(Z(419430400), var1))

\* h_float in hundredths: h_int = var1 >> 12, round(h_int / 1024, 2)
BMEHVal(var1) == RoundHalfEven(ZToInt(ZShr(var1, 12)) * 25, 256)

\* var2 of the pressure stage before the division
BMEPressureVar2(d, t_fine) ==
    LET var1 == ZSub(t_fine, Z(128000))
        v2a == ZMul(ZMul(var1, var1), Z(d.dig_P6))
        v2b == ZAdd(v2a, ZShl(ZMul(var1, Z(d.dig_P5)), 17))
    IN  ZAdd(v2b, ZShl(Z(d.dig_P4), 35))

\* the stage-1 pressure divisor: var1 as the guard before the division sees it
BMEPressureDivisor(d, t_fine) ==
    LET var1 == ZSub(t_fine, Z(128000))
        v1a == ZAdd(ZShr(ZMul(ZMul(var1, var1), Z(d.dig_P3)), 8),
                    ZShl(ZMul(var1, Z(d.dig_P2)), 12))
    IN  ZShr(ZMul(ZAdd(ZShl(Z(1), 47), v1a), Z(d.dig_P1)), 33)

\* the guard before the division: var1 != 0
BMEPressureGuard(var1) == ~ZIsZero(var1)

\* p_int of the pressure stage, for a divisor var1 # 0
BMEPInt(d, p_raw, var1, var2) ==
    LET p0 == Z(1048576 - p_raw)
        p1 == ZFloorDiv(ZMul(ZSub(ZShl(p0, 31), var2), Z(3125)), var1)
        q == ZShr(p1, 13)
        v1 == ZShr(ZMul(ZMul(Z(d.dig_P9), q), q), 25)
        v2 == ZShr(ZMul(Z(d.dig_P8), p1), 19)
    IN  ZAdd(ZShr(ZAdd(ZAdd(p1, v1), v2), 8), ZShl(Z(d.dig_P7), 4))

\* p_float in hundredths, as a signed integer of any size: round(p_int / 25600, 2)
BMEPVal(p_int) == ZShrRound(p_int, 8)

\* what get_measure_results returns with status 0 for the data registers of r
BMEDecode(d, r) ==
    LET t_raw == BMERead(r, 250, 3, "big") \div 16
        t_fine == BMETFine(d, t_raw)
        h_raw == BMERead(r, 253, 2, "big")
        hvar1 == BMEHumidityIntermediate(d, t_fine, h_raw)
        h_float == IF BMEHumidityInRange(hvar1) THEN Some(BMEHVal(hvar1)) ELSE None
        p_raw == BMERead(r, 247, 3, "big") \div 16
        var2 == BMEPressureVar2(d, t_fine)
        var1 == BMEPressureDivisor(d, t_fine)
    IN  IF BMEPressureGuard(var1)
        THEN IF ZIsZero(var1) THEN Raised("ZeroDivisionError")
             ELSE Returned(<<Some(t_raw), Some(ZToInt(BMETInt(t_fine))), Some(h_raw), h_float,
                             Some(p_raw), Some(BMEPVal(BMEPInt(d, p_raw, var1, var2)))>>)
        ELSE Returned(<<Some(t_raw), Some(ZToInt(BMETInt(t_fine))), Some(h_raw), h_float,
                        Some(p_raw), None>>)

\* the status test looking at the im_update bit only
BMEStatusReadyUpdateBit(status) == BitAnd(status, 1) = 0

\* the driver's test of the status register: status == 0x00
BMEStatusReady(status) == status = 0

\* calibration contents a device may be programmed with: T1..T3, P1..P9 and
\* H2 are 16-bit words, H1, H3, 0xE4..0xE6 and H6 (0xE7) bytes
BMECalibrations ==
    { [T |-> <<27504, 26435, 64536>>,
       P |-> <<36477, 54851, 3024, 2855, 140, 65529, 15500, 50936, 6000>>,
       H1 |-> 75, H2 |-> 362, H3 |-> 0, E4 |-> 20, E5 |-> 35, E6 |-> 3, H6 |-> 30],
      [T |-> <<27504, 26435, 64536>>,
       P |-> <<0, 54851, 3024, 2855, 140, 65529, 15500, 50936, 6000>>,
       H1 |-> 0, H2 |-> 100, H3 |-> 0, E4 |-> 0, E5 |-> 0, E6 |-> 0, H6 |-> 0],
      [T |-> <<27504, 26435, 64536>>,
       P |-> <<36477, 54851, 3024, 2855, 140, 65529, 15500, 50936, 6000>>,
       H1 |-> 75, H2 |-> 14316, H3 |-> 0, E4 |-> 0, E5 |-> 0, E6 |-> 0, H6 |-> 1],
      [T |-> <<57536, 16384, 0>>,
       P |-> <<1, 32768, 0, 65535, 65535, 65535, 65535, 65535, 65535>>,
       H1 |-> 255, H2 |-> 65535, H3 |-> 255, E4 |-> 255, E5 |-> 255, E6 |-> 255,
       H6 |-> 255] }

\* the calibration registers of a device programmed with cal
BMECalRegs(cal) ==
    LET word(i) == IF i <= 3 THEN cal.T[i] ELSE cal.P[i - 3]
    IN  [a \in BMEAddrs |->
            IF a \in 136..159
            THEN LET w == word(((a - 136) \div 2) + 1)
                 IN  IF a % 2 = 0 THEN w % 256 ELSE w \div 256
            ELSE IF a = 161 THEN cal.H1
            ELSE IF a = 225 THEN cal.H2 % 256
            ELSE IF a = 226 THEN cal.H2 \div 256
            ELSE IF a = 227 THEN cal.H3
            ELSE IF a = 228 THEN cal.E4
            ELSE IF a = 229 THEN cal.E5
            ELSE IF a = 230 THEN cal.E6
            ELSE IF a = 231 THEN cal.H6
            ELSE IF a \in {247, 250, 253} THEN 128
            ELSE 0]

\* a device after power-on reset: data registers 0x80 0x00 (0x00), asleep
\* BME280.__init__: ctrl_meas = 0x24, ctrl_hum = 0x01, config = 0x00, then the
\* compensation parameters are read
InitBME ==
    /\ drv = "BME280"
    /\ \E cal \in BMECalibrations :
          regs = BMEDeviceWrite(BMEDeviceWrite(BMEDeviceWrite(BMECalRegs(cal),
                                    244, 36), 242, 1), 245, 0)
    /\ self = [i2c_addr |-> 118] @@ BMEGetCompensationParams(regs)
    /\ op = [name |-> "__init__"]
    /\ pre = regs
    /\ bus = <<>>
    /\ ret = Returned(None)
    /\ hist = NoHist

\* BME280.start_measure()
BMEStartMeasure ==
    /\ drv = "BME280"
    /\ LET regval == BMERead(regs, 244, 1, "big")
           data == BytesOf(BitOr(regval, 1), TRUE)
       IN  /\ regs' = BMEDeviceWrite(regs, 244, data.byte)
           /\ bus' = <<BusRead(244, 1), BusWrite(244, data.byte)>>
    /\ op' = [name |-> "start_measure"]
    /\ pre' = regs
    /\ ret' = Returned(None)
    /\ hist' = [started |-> TRUE, delivered |-> 0]
    /\ UNCHANGED <<drv, self>>

\* BME280.get_measure_results()
BMEGetMeasureResults ==
    /\ drv = "BME280"
    /\ op' = [name |-> "get_measure_results"]
    /\ pre' = regs
    /\ regs' = regs
    /\ LET status == BMERead(regs, 243, 1, "big")
       IN  IF BMEStatusReady(status)
           THEN /\ bus' = <<BusRead(243, 1), BusRead(250, 3), BusRead(253, 2),
                            BusRead(247, 3)>>
                /\ ret' = BMEDecode(self, regs)
                /\ hist' = Delivered(hist, TRUE)
           ELSE /\ bus' = <<BusRead(243, 1)>>
                /\ ret' = Returned(<<None, None, None, None, None, None>>)
                /\ hist' = Delivered(hist, FALSE)
    /\ UNCHANGED <<drv, self>>

\* raw register contents a conversion may leave: temperature (0xFA..0xFC),
\* humidity (0xFD, 0xFE) and pressure (0xF7..0xF9)
BMESamples ==
    {<<t, h, p>> : t \in {<<126, 237, 0>>, <<0, 0, 0>>, <<255, 255, 240>>},
                   h \in {<<255, 255>>, <<117, 48>>, <<0, 0>>}
                         \cup {<<1, 207 + k>> : k \in 0..ExtraBytes},
                   p \in {<<101, 90, 192>>, <<255, 255, 240>>}}

\* The device finishes the forced-mode conversion: new data registers, the
\* status register reads 0 and the mode bits of ctrl_meas fall back to sleep.
BMEDeviceDone ==
    /\ drv = "BME280"
    /\ regs[243] # 0
    /\ \E s \in BMESamples :
          regs' = [regs EXCEPT ![243] = 0, ![244] = BitAnd(regs[244], 252),
                               ![250] = s[1][1], ![251] = s[1][2], ![252] = s[1][3],
                               ![253] = s[2][1], ![254] = s[2][2],
                               ![247] = s[3][1], ![248] = s[3][2], ![249] = s[3][3]]
    /\ DeviceStep

NextBME ==
    \/ BMEStartMeasure
    \/ BMEGetMeasureResults
    \/ BMEDeviceDone

SpecBME == InitBME /\ [][NextBME]_vars

(***************************************************************************)
(* One driver object of any of the four kinds.                             *)
(***************************************************************************)
Init == InitTSL \/ InitAHT \/ InitBME \/ InitDHT

Next == NextTSL \/ NextAHT \/ NextBME \/ NextDHT

Spec == Init /\ [][Next]_vars

(***************************************************************************)
(* Properties                                                              *)
(***************************************************************************)
IsGet(d) == drv = d /\ op.name = "get_measure_results"

\* the TSL2591 device state in which ALS is enabled (AEN, bit 1 of ENABLE)
AenSet(r) == (r[ENABLE] \div 2) % 2 = 1

\* the TSL2591 device state in which a cycle has completed (AVALID, bit 0 of STATUS)
AvalidSet(r) == r[STATUS] % 2 = 1

Sentinel == Returned(<<Some(-1), Some(-1)>>)

\* C1: TSL2591: whenever the ALS-enable bit is clear when get_measure_results
\* is called, it returns exactly (-1, -1) without raising; the bit is clear
\* after construction and after every read that returned channel data.
C1_NotStartedReturnsSentinel ==
    /\ (IsGet("TSL2591") /\ ~AenSet(pre)) => ret = Sentinel
    /\ (drv = "TSL2591" /\ op.name = "__init__") => ~AenSet(regs)
    /\ (IsGet("TSL2591") /\ AenSet(pre) /\ AvalidSet(pre)) => ~AenSet(regs)

\* a get_measure_results found ALS disabled although a completed cycle's
\* data is still flagged valid, and returned the sentinel
C1_Witness ==
    /\ IsGet("TSL2591")
    /\ ~AenSet(pre)
    /\ AvalidSet(pre)
    /\ pre[C0DATA] = 65535
    /\ ret = Sentinel

\* C2: TSL2591: a get_measure_results that finds ALS enabled and the status
\* ready bit set returns the two channel values and leaves ENABLE as it was
\* with only bit 1 cleared; a get_measure_results that directly follows it
\* (no start_measure in between) returns (-1, -1).
C2_ReadDisablesAls ==
    [][ /\ (drv = "TSL2591" /\ op'.name = "get_measure_results"
              /\ AenSet(regs) /\ AvalidSet(regs))
           => /\ ret' = Returned(<<Some(regs[C0DATA]), Some(regs[C1DATA])>>)
              /\ regs'[ENABLE] = regs[ENABLE] - 2
              /\ regs'[ENABLE] % 2 = regs[ENABLE] % 2
              /\ regs'[ENABLE] \div 4 = regs[ENABLE] \div 4
        /\ (IsGet("TSL2591") /\ ret # Sentinel /\ ret # Returned(<<None, None>>)
              /\ op'.name = "get_measure_results")
           => ret' = Sentinel ]_vars

\* a read has just returned channel data and left the device powered on with
\* ALS disabled
C2_Witness ==
    /\ IsGet("TSL2591")
    /\ AenSet(pre)
    /\ AvalidSet(pre)
    /\ ret = Returned(<<Some(65535), Some(1)>>)
    /\ regs[ENABLE] = 1

\* whether the device of driver d is busy in device state r: AHT status bit 7
\* set, BME280 status register non-zero, TSL2591 ALS enabled and not yet valid
DeviceBusy(d, r) ==
    CASE d = "AHT" -> (r.status \div 128) % 2 = 1
      [] d = "BME280" -> r[243] # 0
      [] d = "TSL2591" -> AenSet(r) /\ ~AvalidSet(r)
      [] OTHER -> FALSE

\* the all-unavailable tuple of driver d
AllNone(d) ==
    CASE d = "AHT" -> <<None, None, None, None, None>>
      [] d = "BME280" -> <<None, None, None, None, None, None>>
      [] OTHER -> <<None, None>>

\* a bus transaction that reads measurement data
IsDataRead(d, t) ==
    CASE d = "AHT" -> t.k = "readfrom" /\ t.n # 1
      [] d = "BME280" -> t.k = "readfrom_mem" /\ t.cmd \in {247, 250, 253}
      [] d = "TSL2591" -> t.k = "readfrom_mem" /\ t.cmd % 32 \in {C0DATA, C1DATA}
      [] OTHER -> FALSE

\* a bus transaction that writes a device register (the AHT status command
\* writes none)
IsRegisterWrite(t) == t.k = "writeto_mem" \/ (t.k = "writeto" /\ t.data # AHTStatusCmd)

\* C3: AHT, BME280, TSL2591: a get_measure_results made while the device is
\* busy returns the all-unavailable tuple, reads no measurement data, writes
\* no device register and leaves the device as it was, so that consecutive
\* busy polls return the same result.
C3_BusyPollUnavailable ==
    \A d \in {"AHT", "BME280", "TSL2591"} :
        (IsGet(d) /\ DeviceBusy(d, pre))
        => /\ ret = Returned(AllNone(d))
           /\ regs = pre
           /\ \A i \in DOMAIN bus : ~IsDataRead(d, bus[i]) /\ ~IsRegisterWrite(bus[i])

\* a busy poll of an AHT that is converting after an earlier frame was read
C3_Witness ==
    /\ IsGet("AHT")
    /\ DeviceBusy("AHT", pre)
    /\ pre.data # <<0, 0, 0, 0, 0>>
    /\ ret = Returned(AllNone("AHT"))
    /\ Len(bus) = 2

\* C4 as claimed: every get_measure_results call performs at most two bus
\* transactions, on the busy path and on the result-ready path alike.
C4_AtMostTwoTransactions ==
    op.name = "get_measure_results" => Len(bus) <= 2

\* C4 as amended: a get_measure_results call performs at most two bus
\* transactions when the device is busy (AHT 2, BME280 1, TSL2591 2), when
\* the TSL2591 was not started (1) and for the DHT (1 transfer); when a
\* reading is ready it performs exactly 4 (AHT), 4 (BME280) and 6 (TSL2591).
C4_TransactionsPerPath ==
    /\ \A d \in {"AHT", "BME280", "TSL2591"} :
          (IsGet(d) /\ DeviceBusy(d, pre)) => Len(bus) <= 2
    /\ (IsGet("TSL2591") /\ ~AenSet(pre)) => Len(bus) = 1
    /\ IsGet("DHT") => Len(bus) = 1
    /\ (IsGet("AHT") /\ ~DeviceBusy("AHT", pre)) => Len(bus) = 4
    /\ (IsGet("BME280") /\ ~DeviceBusy("BME280", pre)) => Len(bus) = 4
    /\ (IsGet("TSL2591") /\ AenSet(pre) /\ AvalidSet(pre)) => Len(bus) = 6

\* a TSL2591 read that returned channel data took six bus transactions
C4_Witness ==
    /\ IsGet("TSL2591")
    /\ AenSet(pre)
    /\ AvalidSet(pre)
    /\ ret = Returned(<<Some(pre[C0DATA]), Some(pre[C1DATA])>>)
    /\ Len(bus) = 6

\* whether a returned tuple holds a reading (some field is not None)
HasReading(r) == r.exc = "none" /\ \E i \in DOMAIN r.val : r.val[i] # None

TFineOf(r) == BMETFine(self, BMERead(r, 250, 3, "big") \div 16)

\* the humidity intermediate and the pressure divisor of the data registers in r
HumidityOf(r) == BMEHumidityIntermediate(self, TFineOf(r), BMERead(r, 253, 2, "big"))

DivisorOf(r) == BMEPressureDivisor(self, TFineOf(r))

\* C6: BME280: with the status register at zero get_measure_results raises
\* nothing and returns t_raw, t_val, h_raw and p_raw; p_val is None exactly
\* when the stage-1 pressure divisor is 0, h_val is None exactly when the
\* humidity intermediate is below 0 or above 419430400.
C6_GuardsDegradeOneField ==
    (IsGet("BME280") /\ pre[243] = 0)
    => /\ ret.exc = "none"
       /\ Len(ret.val) = 6
       /\ \A i \in {1, 2, 3, 5} : ret.val[i] # None
       /\ ret.val[1] = Some(BMERead(pre, 250, 3, "big") \div 16)
       /\ ret.val[3] = Some(BMERead(pre, 253, 2, "big"))
       /\ ret.val[5] = Some(BMERead(pre, 247, 3, "big") \div 16)
       /\ (ret.val[6] = None) <=> (DivisorOf(pre) = Z(0))
       /\ (ret.val[4] = None) <=> (HumidityOf(pre).neg
                                    \/ MCmp(HumidityOf(pre).mag, MOfNat(419430400)) > 0)
       /\ HumidityOf(pre) = Z(419430400) => ret.val[4] # None
       /\ HumidityOf(pre) = Z(419430401) => ret.val[4] = None

\* the humidity intermediate is exactly 419430401: only h_val is unavailable
C6_Witness ==
    /\ IsGet("BME280")
    /\ pre[243] = 0
    /\ HumidityOf(pre) = Z(419430401)
    /\ ret.exc = "none"
    /\ ret.val[4] = None
    /\ ret.val[6] # None
    /\ ret.val[2] # None

\* C7: DHT (DHT11 and DHT22): get_measure_results returns a 5-tuple of
\* values and never raises; valid is true exactly when the sum of the four
\* data bytes modulo 256 equals the checksum byte.
C7_ChecksumOnlyFlags ==
    (IsGet("DHT") /\ self.dht \in {DHT11, DHT22})
    => /\ ret.exc = "none"
       /\ Len(ret.val) = 5
       /\ \A i \in 1..5 : ret.val[i] # None
       /\ ret.val[5] = Some((self.buf[1] + self.buf[2] + self.buf[3] + self.buf[4]) % 256
                            = self.buf[5])

\* a transfer whose checksum byte is wrong came back decoded and flagged
C7_Witness ==
    /\ IsGet("DHT")
    /\ self.dht = DHT22
    /\ self.buf = <<2, 140, 64, 1, 208>>
    /\ ret = Returned(<<Some(-320), Some(-3200), Some(35842), Some(358420), Some(FALSE)>>)

\* C8: AHT: the validity flag get_measure_results returns equals the
\* comparison of byte 6 with the 8-bit CRC-8 (polynomial 0x31, initial value
\* 0xFF, MSB first, truncated after every shift) of bytes 0..5.
C8_CrcMatchesReference ==
    (IsGet("AHT") /\ ~DeviceBusy("AHT", pre))
    => /\ ret.exc = "none"
       /\ ret.val[5] = Some(Crc8(255, <<pre.status>> \o pre.data) = pre.crc)

\* a frame with a set top bit in its first data byte passed the check
C8_Witness ==
    /\ IsGet("AHT")
    /\ ~DeviceBusy("AHT", pre)
    /\ pre.data[1] = 128
    /\ pre.data[3] = 240
    /\ ret.exc = "none"
    /\ ret.val[5] = Some(TRUE)

\* the CONFIG byte and the ENABLE byte a start_measure(time, gain) wrote
ConfigWritten ==
    /\ ret = Returned(None)
    /\ Len(bus) = 3
    /\ bus[1].k = "writeto_mem"
    /\ bus[1].cmd % 32 = CONFIG
    /\ bus[1].data \in 0..255
    /\ bus[1].data % 8 = ((IF op.time < 600 THEN op.time ELSE 600) \div 100) - 1
    /\ (bus[1].data \div 16) % 4 = op.gain
    /\ (bus[1].data \div 8) % 2 = 0
    /\ bus[1].data \div 64 = 0
    /\ regs[CONFIG] = bus[1].data
    /\ bus[3].k = "writeto_mem"
    /\ bus[3].cmd % 32 = ENABLE
    /\ (bus[3].data \div 2) % 2 = 1
    /\ bus[3].data % 2 = pre[ENABLE] % 2
    /\ bus[3].data \div 4 = pre[ENABLE] \div 4
    /\ regs[ENABLE] = bus[3].data

\* C9 as claimed: TSL2591: for every time >= 0 and gain in 0..3,
\* start_measure writes one CONFIG byte in 0..255 with the integration code
\* (min(time, 600) // 100) - 1 in bits 0-2, gain in bits 4-5 and zero
\* elsewhere, then ENABLE with bit 1 set and the other bits as read.
C9_ConfigForEveryTime ==
    (drv = "TSL2591" /\ op.name = "start_measure") => ConfigWritten

\* C9 as amended: the same for every time >= 100; for a time below 100
\* start_measure either raises ValueError before any write, or writes 0xFF
\* to CONFIG.
C9_ConfigFromHundredUp ==
    /\ (drv = "TSL2591" /\ op.name = "start_measure" /\ op.time >= 100) => ConfigWritten
    /\ (drv = "TSL2591" /\ op.name = "start_measure" /\ op.time < 100)
       => \/ ret = Raised("ValueError") /\ bus = <<>> /\ regs[ENABLE] = pre[ENABLE]
          \/ ret = Returned(None) /\ regs[CONFIG] = 255

\* start_measure(700, 3) wrote the clamped code 5 and gain 3
C9_Witness ==
    /\ drv = "TSL2591"
    /\ op = [name |-> "start_measure", time |-> 700, gain |-> 3]
    /\ ConfigWritten
    /\ regs[CONFIG] = 53
    /\ regs[ENABLE] = 3

\* C10 as claimed: DHT (DHT11 and DHT22): h_raw and t_raw are returned as
\* the unmodified 16-bit fields of the transfer, both in 0..65535.
C10_RawCodesUnmodified ==
    (IsGet("DHT") /\ self.dht \in {DHT11, DHT22})
    => /\ ret.val[3] = Some(self.buf[1] + 256 * self.buf[2])
       /\ ret.val[1] = Some(self.buf[3] + 256 * self.buf[4])
       /\ ret.val[1][1] \in 0..65535
       /\ ret.val[3][1] \in 0..65535

\* the 16-bit temperature field of the buffer, bytes 2-3, low byte first
TField == self.buf[3] + 256 * self.buf[4]

\* C10 as amended: h_raw is the unmodified 16-bit field of bytes 0-1 (low
\* byte first); t_raw is the unmodified field of bytes 2-3 for the DHT11, and
\* for the DHT22 when the field has none of the bits of 8000 (0x1F40) set;
\* otherwise the DHT22 returns t_raw as minus the field's low 15 bits.
C10_RawCodesButSignedT ==
    (IsGet("DHT") /\ self.dht \in {DHT11, DHT22})
    => /\ ret.val[3] = Some(self.buf[1] + 256 * self.buf[2])
       /\ ret.val[3][1] \in 0..65535
       /\ (self.dht = DHT11 \/ BitAnd(TField, 8000) = 0)
          => (ret.val[1] = Some(TField) /\ ret.val[1][1] \in 0..65535)
       /\ (self.dht = DHT22 /\ BitAnd(TField, 8000) # 0)
          => (ret.val[1] = Some(-(TField % 32768)) /\ ret.val[1][1] \in -32767..0)

\* a DHT22 transfer with bit 6 of the temperature field set came back with a
\* negated raw temperature code
C10_Witness ==
    /\ IsGet("DHT")
    /\ self.dht = DHT22
    /\ TField = 64
    /\ ret.exc = "none"
    /\ ret.val[1] = Some(-64)

=============================================================================
